---- MODULE Spec2Model ----
(***************************************************************************)
(* Model of canonicalwebteam.django_views.TemplateFinder: the lookup of a  *)
(* template for a request path (_get_template), the case-insensitive       *)
(* fallback that answers with a redirect (_find_template_url), and the     *)
(* composition of the context of a Markdown page (_parse_markdown_file,    *)
(* render_to_response).                                                    *)
(*                                                                         *)
(* Strings are sequences of one-character strings, so that lower(), the    *)
(* glob character classes, lstrip("/"), os.path.join and the regular       *)
(* expressions of the code are computed character by character.            *)
(***************************************************************************)
EXTENDS Naturals, Sequences, FiniteSets, TLC

VARIABLES
    tree,       \* the files under the template directories: <<root, path>>
    front,      \* the frontmatter metadata of every .md file of the tree
    pool,       \* the worker threads of the server that serve requests
    md_tokens,  \* state of the TemplateFinder.parse_markdown object (shared)
    pc,         \* per thread: position in render_to_response
    req,        \* per thread: the request being served
    matched,    \* per thread: what _get_template found for the request
    loc,        \* per thread: locals of _parse_markdown_file
    loaded,     \* per thread: the files _parse_markdown_file has read
    outcome     \* per thread: the response (or the exception) of the view

vars == <<tree, front, pool, md_tokens, pc, req, matched, loc, loaded, outcome>>

(***************************************************************************)
(* Bounds                                                                  *)
(***************************************************************************)
\* the largest number of files in the template directories
MaxFiles == 2

(***************************************************************************)
(* Strings                                                                 *)
(***************************************************************************)
None == <<"None">>

Slash == "/"
ExtHtml == <<".", "h", "t", "m", "l">>
ExtMd == <<".", "m", "d">>
IndexHtml == <<"i", "n", "d", "e", "x">> \o ExtHtml
IndexMd == <<"i", "n", "d", "e", "x">> \o ExtMd

\* str.lower() of one character
LowerChar(c) ==
    CASE c = "A" -> "a" [] c = "B" -> "b" [] c = "H" -> "h" [] c = "T" -> "t"
      [] c = "M" -> "m" [] c = "L" -> "l" [] c = "D" -> "d" [] c = "I" -> "i"
      [] c = "N" -> "n" [] c = "E" -> "e" [] c = "X" -> "x" [] c = "W" -> "w"
      [] OTHER -> c

\* str.upper() of one character
UpperChar(c) ==
    CASE c = "a" -> "A" [] c = "b" -> "B" [] c = "h" -> "H" [] c = "t" -> "T"
      [] c = "m" -> "M" [] c = "l" -> "L" [] c = "d" -> "D" [] c = "i" -> "I"
      [] c = "n" -> "N" [] c = "e" -> "E" [] c = "x" -> "X" [] c = "w" -> "W"
      [] OTHER -> c

\* str.isalpha() of one character
IsAlpha(c) == c \notin {".", "/"}

\* str.lower()
Lower(s) == [i \in 1..Len(s) |-> LowerChar(s[i])]

\* str.lstrip("/")
RECURSIVE Lstrip(_)
Lstrip(s) == IF s # <<>> /\ Head(s) = Slash THEN Lstrip(Tail(s)) ELSE s

\* str.startswith / str.endswith
StartsWith(s, p) == Len(s) >= Len(p) /\ SubSeq(s, 1, Len(p)) = p
EndsWith(s, e) == Len(s) >= Len(e) /\ SubSeq(s, Len(s) - Len(e) + 1, Len(s)) = e

\* os.path.join(a, b) for a relative b
PathJoin(a, b) ==
    IF a = <<>> THEN b
    ELSE IF a[Len(a)] = Slash THEN a \o b
    ELSE a \o <<Slash>> \o b

\* os.path.dirname(p): everything before the last "/"
RECURSIVE Dirname(_)
Dirname(p) ==
    IF p = <<>> THEN <<>>
    ELSE IF p[Len(p)] = Slash
         THEN (IF Len(p) = 1 THEN p ELSE SubSeq(p, 1, Len(p) - 1))
         ELSE Dirname(SubSeq(p, 1, Len(p) - 1))

\* re.sub(r"\.(html|md)$", "", s): the regular expression is case-sensitive
StripExt(s) ==
    IF EndsWith(s, ExtHtml) THEN SubSeq(s, 1, Len(s) - Len(ExtHtml))
    ELSE IF EndsWith(s, ExtMd) THEN SubSeq(s, 1, Len(s) - Len(ExtMd))
    ELSE s

(***************************************************************************)
(* The file system under the template directories                         *)
(***************************************************************************)
\* loader.engines.templates["django"]["DIRS"], in search order
DIRS == <<"r1", "r2">>
Roots == {DIRS[i] : i \in 1..Len(DIRS)}

Stems == {<<"a", "b">>, <<"A", "b">>, <<"A", "B">>}

\* the names a file of the tree may have, per template directory
Universe ==
    {<<"r1", s \o e>> : s \in Stems, e \in {<<>>, ExtHtml, ExtMd}}
    \cup {<<"r1", PathJoin(s, i)>> : s \in Stems, i \in {IndexHtml, IndexMd}}
    \cup {<<"r1", <<"A", "b", ".", "H", "T", "M", "L">>>>, <<"r1", IndexHtml>>}
    \cup {<<"r2", <<"A", "b">> \o ExtHtml>>, <<"r2", <<"a", "b">> \o ExtMd>>}

FilesIn(t, root) == {f[2] : f \in {g \in t : g[1] = root}}

\* the directories of a template directory (without the directory itself)
DirsIn(t, root) ==
    UNION {{SubSeq(p, 1, i - 1) : i \in {j \in 1..Len(p) : p[j] = Slash}} :
           p \in FilesIn(t, root)}

\* a path is a file or a directory, never both
WellFormed(t) ==
    \A root \in Roots : FilesIn(t, root) \cap DirsIn(t, root) = {}

\* what glob can return under a template directory, relative to it: files,
\* directories, directories with a trailing "/", and "" for the directory
\* itself (glob("<dir>/") returns "<dir>/")
NamesIn(t, root) ==
    FilesIn(t, root) \cup DirsIn(t, root)
    \cup {d \o <<Slash>> : d \in DirsIn(t, root)} \cup {<<>>}

IsMd(f) == EndsWith(f[2], ExtMd)
MdFiles(t) == {f \in t : IsMd(f)}

(***************************************************************************)
(* File contents                                                           *)
(***************************************************************************)
Keys == {"html_content", "nav"}

\* a mapping with no keys ({} in the code)
EmptyDict == [k \in {} |-> None]

WrapperRef == <<Slash, "w">> \o ExtHtml
\* what markdown_includes may point to: an absolute and a relative reference
IncludeRefs == {<<Slash>> \o <<"A", "b">> \o ExtMd, <<"A", "B">> \o ExtMd}

Dicts(vals) == UNION {[ks -> vals] : ks \in SUBSET Keys}

\* the metadata frontmatter.loads finds: a missing key is None / {}
Metadata ==
    [wrapper_template : {None, WrapperRef},
     context : Dicts({<<"fm">>}),
     markdown_includes : Dicts(IncludeRefs)]
\* metadata with wrapper_template at most
PlainMetadata ==
    {m \in Metadata : m.context = EmptyDict /\ m.markdown_includes = EmptyDict}
NoMetadata ==
    [wrapper_template |-> None, context |-> EmptyDict,
     markdown_includes |-> EmptyDict]

\* the .md files that may carry a context and includes in their frontmatter
Pages == {<<"r1", <<"a", "b">> \o ExtMd>>}
MetadataOf(f) == IF f \in Pages THEN Metadata ELSE PlainMetadata

\* the text of a file: its frontmatter block and the body under it
Text(f) == [fm |-> IF f \in DOMAIN front THEN front[f] ELSE NoMetadata,
            body |-> f]

\* frontmatter.loads(text): the metadata, and the text without the block
frontmatter_loads(text) ==
    [metadata |-> text.fm, content |-> [text EXCEPT !.fm = NoMetadata]]

\* what mistune makes of a text
Html(text) == <<"html", text>>

(***************************************************************************)
(* Template lookup                                                         *)
(***************************************************************************)
\* loader.get_template(path): the first template directory that has the file
HasFile(path) == \E root \in Roots : <<root, path>> \in tree
get_template_origin(path) ==
    LET i == CHOOSE j \in 1..Len(DIRS) :
                 /\ <<DIRS[j], path>> \in tree
                 /\ \A k \in 1..(j - 1) : <<DIRS[k], path>> \notin tree
    IN  <<DIRS[i], path>>

template_exists(path) == HasFile(path)

\* a lookup that tries the Markdown file before the index page
get_template_md_first(url_path) ==
    IF template_exists(url_path \o ExtHtml) THEN url_path \o ExtHtml
    ELSE IF template_exists(url_path \o ExtMd) THEN url_path \o ExtMd
    ELSE IF template_exists(PathJoin(url_path, IndexHtml))
         THEN PathJoin(url_path, IndexHtml)
    ELSE IF template_exists(PathJoin(url_path, IndexMd))
         THEN PathJoin(url_path, IndexMd)
    ELSE None

get_template(url_path) ==
    IF template_exists(url_path \o ExtHtml) THEN url_path \o ExtHtml
    ELSE IF template_exists(PathJoin(url_path, IndexHtml))
         THEN PathJoin(url_path, IndexHtml)
    ELSE IF template_exists(url_path \o ExtMd) THEN url_path \o ExtMd
    ELSE IF template_exists(PathJoin(url_path, IndexMd))
         THEN PathJoin(url_path, IndexMd)
    ELSE None

\* the character class glob gets for one character of the pattern
either(c) == IF IsAlpha(c) THEN {LowerChar(c), UpperChar(c)} ELSE {c}

\* the names under base_dir that the case-ignoring pattern matches
insensitive_glob(pattern, base_dir) ==
    {n \in NamesIn(tree, base_dir) :
        /\ Len(n) = Len(pattern)
        /\ \A i \in 1..Len(n) : n[i] \in either(pattern[i])}

\* the three patterns _find_template_url globs for
GlobPattern(path, g) ==
    CASE g = 1 -> path [] g = 2 -> path \o ExtHtml [] g = 3 -> path \o ExtMd

\* the list `matches` before cleaning, one entry per glob result: the three
\* globs of every template directory are concatenated, so a name counts once
\* for every template directory and pattern that finds it
find_matches(path) ==
    UNION {{<<x[1], x[2], n>> :
                n \in insensitive_glob(GlobPattern(path, x[2]), x[1])} :
           x \in Roots \X {1, 2, 3}}

\* a cleaning that leaves the extension on the match
cleaned_match_keep_ext(h) == <<Slash>> \o h[3]

\* re.sub of the template directory and of the extension
cleaned_match(h) == StripExt(<<Slash>> \o h[3])

\* a fallback that picks one of several matches
find_template_url_any(path) ==
    LET matches == find_matches(path)
        only == CHOOSE h \in matches : TRUE
    IN  IF /\ Cardinality(matches) >= 1
           /\ Lower(cleaned_match(only)) = <<Slash>> \o Lower(path)
           /\ get_template(Lstrip(cleaned_match(only))) # None
        THEN cleaned_match(only)
        ELSE None

\* a fallback that does not look the match up again
find_template_url_unguarded(path) ==
    LET matches == find_matches(path)
        only == CHOOSE h \in matches : TRUE
    IN  IF /\ Cardinality(matches) = 1
           /\ Lower(cleaned_match(only)) = <<Slash>> \o Lower(path)
        THEN cleaned_match(only)
        ELSE None

find_template_url(path) ==
    LET matches == find_matches(path)
        only == CHOOSE h \in matches : TRUE
    IN  IF /\ Cardinality(matches) = 1
           /\ Lower(cleaned_match(only)) = <<Slash>> \o Lower(path)
           /\ get_template(Lstrip(cleaned_match(only))) # None
        THEN cleaned_match(only)
        ELSE None

\* os.path.relpath leaves a joined path as it is when it has no "." and ".."
\* segments, as is the case for the references of IncludeRefs
relative_template_path(path, origin_filepath) ==
    IF StartsWith(path, <<Slash>>) THEN Lstrip(path)
    ELSE PathJoin(Dirname(origin_filepath), path)

(***************************************************************************)
(* Requests                                                                *)
(***************************************************************************)
Threads == {"t1", "t2"}

\* request.path of the requests a client sends on its own
ReqPaths ==
    {<<Slash>>, <<Slash, "a", "b">>, <<Slash, "A", "b">>,
     <<Slash, "a", "b", Slash>>, <<Slash, "a", "b">> \o ExtMd,
     <<Slash, "a", "b", Slash, "i", "n", "d", "e", "x">>}

\* dict.update(): the keys of `over` win
Update(base, over) ==
    [k \in DOMAIN base \cup DOMAIN over |->
        IF k \in DOMAIN over THEN over[k] ELSE base[k]]

\* the context get_context_data hands to render_to_response: the view itself,
\* and what the caller put under the keys a Markdown page may define too
CallerContexts ==
    {Update([k \in {"view"} |-> <<"caller">>], [k \in ks |-> <<"caller">>]) :
        ks \in SUBSET Keys}

NoText == [fm |-> NoMetadata, body |-> <<"", <<>>>>]
NoReq == [path |-> None, context |-> EmptyDict, followed |-> FALSE]
NoLoc == [filepath |-> None, template |-> None, context |-> EmptyDict,
          includes |-> EmptyDict, pending |-> {}, key |-> "", text |-> NoText]
NoOutcome == [kind |-> "none", template |-> None, context |-> EmptyDict,
              location |-> None]

\* the outcomes of the view; `context` is the dict the caller passed in, as
\* it is when the view is left
Render(template, context) ==
    [kind |-> "render", template |-> template, context |-> context,
     location |-> None]
\* HttpResponseRedirect(found_template_url)
Redirect(location, context) ==
    [kind |-> "redirect", template |-> None, context |-> context,
     location |-> location]
\* raise Http404
NotFound(context) ==
    [kind |-> "notfound", template |-> None, context |-> context,
     location |-> None]
\* TemplateDoesNotExist leaves the view: the request fails
Failed(context) ==
    [kind |-> "error", template |-> None, context |-> context,
     location |-> None]

\* TemplateFinder.parse_markdown is one object for all requests: a
\* mistune.Markdown of the mistune that has BlockLexer, made once in the class
\* body. A call of it has two halves, and the object keeps its token list
\* between them.
\* First half: the block lexer appends the blocks of the text to the list
MistuneBlock(tokens, text) == tokens \o <<text>>
\* second half: the tokens of the list are popped and rendered until the
\* list is empty
MistuneOutput(tokens) == <<"html">> \o tokens

\* loader.get_template(path).template.render(Context()): the text of the file
file_contents(path) == Text(get_template_origin(path))

\* a parse that goes on without a wrapper_template
parse_markdown_begin_unchecked(filepath) ==
    LET markdown == frontmatter_loads(file_contents(filepath))
        wrapper_template == markdown.metadata.wrapper_template
    IN  [filepath |-> filepath,
         template |-> relative_template_path(wrapper_template, filepath),
         context |-> markdown.metadata.context,
         includes |-> markdown.metadata.markdown_includes,
         pending |-> DOMAIN markdown.metadata.markdown_includes,
         key |-> "html_content",
         text |-> markdown.content]

\* _parse_markdown_file up to the first use of parse_markdown: the locals, or
\* NoLoc (None in the code) for a file that has no wrapper_template
parse_markdown_begin(filepath) ==
    LET markdown == frontmatter_loads(file_contents(filepath))
        wrapper_template == markdown.metadata.wrapper_template
    IN  IF wrapper_template = None \/ wrapper_template = <<>>
        THEN NoLoc
        ELSE [filepath |-> filepath,
              template |-> relative_template_path(wrapper_template, filepath),
              context |-> markdown.metadata.context,
              includes |-> markdown.metadata.markdown_includes,
              pending |-> DOMAIN markdown.metadata.markdown_includes,
              key |-> "html_content",
              text |-> markdown.content]

\* an include whose frontmatter block is split off
include_content_split(include_path) ==
    frontmatter_loads(file_contents(include_path)).content

\* the text handed to parse_markdown for an include
include_content(include_path) == file_contents(include_path)

\* a merge in which the caller's keys win
context_update_caller_wins(context, data) == Update(data, context)

\* context.update(markdown_data["context"])
context_update(context, data) == Update(context, data)

\* render_to_response up to the response or to the first use of
\* parse_markdown
Handle(t, r) ==
    LET path == Lstrip(r.path)
        matching_template == get_template(path)
    IN  /\ req' = [req EXCEPT ![t] = r]
        /\ matched' = [matched EXCEPT ![t] = matching_template]
        /\ UNCHANGED <<tree, front, pool, md_tokens>>
        /\ IF matching_template = None
           THEN LET found_template_url == find_template_url(path)
                IN  /\ outcome' = [outcome EXCEPT ![t] =
                            IF found_template_url # None
                            THEN Redirect(found_template_url, r.context)
                            ELSE NotFound(r.context)]
                    /\ pc' = [pc EXCEPT ![t] = "done"]
                    /\ loc' = [loc EXCEPT ![t] = NoLoc]
                    /\ loaded' = [loaded EXCEPT ![t] = {}]
           ELSE IF EndsWith(matching_template, ExtMd)
           THEN LET markdown_data == parse_markdown_begin(matching_template)
                IN  /\ loaded' = [loaded EXCEPT ![t] = {matching_template}]
                    /\ IF markdown_data = NoLoc
                       THEN /\ outcome' = [outcome EXCEPT ![t] =
                                    NotFound(r.context)]
                            /\ pc' = [pc EXCEPT ![t] = "done"]
                            /\ loc' = [loc EXCEPT ![t] = NoLoc]
                       ELSE /\ outcome' = [outcome EXCEPT ![t] = NoOutcome]
                            /\ pc' = [pc EXCEPT ![t] = "lex"]
                            /\ loc' = [loc EXCEPT ![t] = markdown_data]
           ELSE /\ outcome' = [outcome EXCEPT ![t] =
                        Render(matching_template, r.context)]
                /\ pc' = [pc EXCEPT ![t] = "done"]
                /\ loc' = [loc EXCEPT ![t] = NoLoc]
                /\ loaded' = [loaded EXCEPT ![t] = {}]

\* a worker thread takes a request
Request(t, path, context) ==
    /\ t \in pool
    /\ pc[t] = "idle"
    /\ Handle(t, [path |-> path, context |-> context, followed |-> FALSE])

\* the response has been sent: the thread is free for the next request
Respond(t) ==
    /\ pc[t] = "done"
    /\ pc' = [pc EXCEPT ![t] = "idle"]
    /\ req' = [req EXCEPT ![t] = NoReq]
    /\ matched' = [matched EXCEPT ![t] = None]
    /\ loaded' = [loaded EXCEPT ![t] = {}]
    /\ outcome' = [outcome EXCEPT ![t] = NoOutcome]
    /\ UNCHANGED <<tree, front, pool, md_tokens, loc>>

\* the client follows the Location of a redirect
FollowRedirect(t) ==
    /\ t \in pool
    /\ pc[t] = "done"
    /\ outcome[t].kind = "redirect"
    /\ Handle(t, [path |-> outcome[t].location, context |-> req[t].context,
                  followed |-> TRUE])

\* self.parse_markdown(...) enters: the text is lexed into the shared object
MarkdownLex(t) ==
    /\ pc[t] = "lex"
    /\ md_tokens' = MistuneBlock(md_tokens, loc[t].text)
    /\ pc' = [pc EXCEPT ![t] = "out"]
    /\ UNCHANGED <<tree, front, pool, req, matched, loc, loaded, outcome>>

\* self.parse_markdown(...) returns and context[key] is set; then the next
\* include is loaded, or _parse_markdown_file returns and the view responds
MarkdownOutput(t) ==
    /\ pc[t] = "out"
    /\ md_tokens' = <<>>
    /\ UNCHANGED <<tree, front, pool, req, matched>>
    /\ LET context == Update(loc[t].context,
                             [k \in {loc[t].key} |-> MistuneOutput(md_tokens)])
       IN  IF loc[t].pending = {}
           THEN /\ outcome' = [outcome EXCEPT ![t] =
                        Render(loc[t].template,
                               context_update(req[t].context, context))]
                /\ pc' = [pc EXCEPT ![t] = "done"]
                /\ loc' = [loc EXCEPT ![t] = NoLoc]
                /\ UNCHANGED loaded
           ELSE \E key \in loc[t].pending :
                LET include_path ==
                        relative_template_path(loc[t].includes[key],
                                               loc[t].filepath)
                IN  IF template_exists(include_path)
                    THEN /\ loc' = [loc EXCEPT ![t] =
                                [@ EXCEPT !.context = context,
                                          !.pending = @ \ {key},
                                          !.key = key,
                                          !.text = include_content(
                                                       include_path)]]
                         /\ loaded' = [loaded EXCEPT ![t] =
                                           @ \cup {include_path}]
                         /\ pc' = [pc EXCEPT ![t] = "lex"]
                         /\ UNCHANGED outcome
                    ELSE /\ outcome' = [outcome EXCEPT ![t] =
                                Failed(req[t].context)]
                         /\ pc' = [pc EXCEPT ![t] = "done"]
                         /\ loc' = [loc EXCEPT ![t] = NoLoc]
                         /\ UNCHANGED loaded

(***************************************************************************)
(* Specifications                                                          *)
(***************************************************************************)
RECURSIVE TreesUpTo(_)
TreesUpTo(n) ==
    IF n = 0 THEN {{}}
    ELSE LET smaller == TreesUpTo(n - 1)
         IN  smaller \cup {t \cup {f} : t \in smaller, f \in Universe}

Trees == {t \in TreesUpTo(MaxFiles) : WellFormed(t)}

\* every assignment of frontmatter to the .md files
RECURSIVE Fronts(_)
Fronts(files) ==
    IF files = {} THEN {[f \in {} |-> NoMetadata]}
    ELSE LET f == CHOOSE g \in files : TRUE
         IN  {[h \in files |-> IF h = f THEN m ELSE fr[h]] :
                 fr \in Fronts(files \ {f}), m \in MetadataOf(f)}

InitThreads ==
    /\ md_tokens = <<>>
    /\ pc = [t \in Threads |-> "idle"]
    /\ req = [t \in Threads |-> NoReq]
    /\ matched = [t \in Threads |-> None]
    /\ loc = [t \in Threads |-> NoLoc]
    /\ loaded = [t \in Threads |-> {}]
    /\ outcome = [t \in Threads |-> NoOutcome]

\* a server that handles one request at a time
Init ==
    /\ tree \in Trees
    /\ front \in Fronts(MdFiles(tree))
    /\ pool = {"t1"}
    /\ InitThreads

\* a server that handles requests in two threads; the files are a Markdown
\* page and what it may include
InitPar ==
    /\ tree \in {t \in Trees :
                    t \subseteq Pages \cup {f \in MdFiles(Universe) :
                        <<Slash>> \o f[2] \in IncludeRefs \/ f[2] \in IncludeRefs}}
    /\ front \in {fr \in Fronts(MdFiles(tree)) :
                    \A f \in DOMAIN fr : fr[f].context = EmptyDict}
    /\ pool = Threads
    /\ InitThreads

Next ==
    \/ \E t \in Threads, path \in ReqPaths, context \in CallerContexts :
            Request(t, path, context)
    \/ \E t \in Threads : Respond(t)
    \/ \E t \in Threads : FollowRedirect(t)
    \/ \E t \in Threads : MarkdownLex(t)
    \/ \E t \in Threads : MarkdownOutput(t)

Spec == Init /\ [][Next]_vars

SpecPar == InitPar /\ [][Next]_vars

(***************************************************************************)
(* The outcome of a request that is served alone                           *)
(***************************************************************************)
\* _parse_markdown_file(filepath) with no other thread in parse_markdown
parse_markdown_file(filepath) ==
    LET data == parse_markdown_begin(filepath)
        path(k) == relative_template_path(data.includes[k], filepath)
    IN  IF data = NoLoc THEN [kind |-> "none", data |-> NoLoc]
        ELSE IF \E k \in DOMAIN data.includes : ~template_exists(path(k))
        THEN [kind |-> "error", data |-> NoLoc]
        ELSE [kind |-> "ok",
              data |-> [data EXCEPT !.context =
                  Update(Update(@, [k \in {"html_content"} |->
                                      MistuneOutput(MistuneBlock(<<>>, data.text))]),
                         [k \in DOMAIN data.includes |->
                             MistuneOutput(MistuneBlock(<<>>,
                                 include_content(path(k))))])]]

\* render_to_response for request r with no other thread in parse_markdown
resolve(r) ==
    LET path == Lstrip(r.path)
        matching_template == get_template(path)
        found_template_url == find_template_url(path)
        markdown_data == parse_markdown_file(matching_template)
    IN  IF matching_template = None
        THEN (IF found_template_url # None
              THEN Redirect(found_template_url, r.context)
              ELSE NotFound(r.context))
        ELSE IF EndsWith(matching_template, ExtMd)
        THEN (CASE markdown_data.kind = "none" -> NotFound(r.context)
                [] markdown_data.kind = "error" -> Failed(r.context)
                [] OTHER -> Render(markdown_data.data.template,
                                   context_update(r.context,
                                                  markdown_data.data.context)))
        ELSE Render(matching_template, r.context)

(***************************************************************************)
(* Properties                                                              *)
(***************************************************************************)
\* the request path p of thread t, without its leading "/"
PathOf(t) == Lstrip(req[t].path)

\* the four exact-case candidates of p, in the order of the specification
Candidates(p) ==
    <<p \o ExtHtml, PathJoin(p, IndexHtml), p \o ExtMd, PathJoin(p, IndexMd)>>
Existing(p) == {i \in 1..4 : HasFile(Candidates(p)[i])}
FirstExisting(p) ==
    Candidates(p)[CHOOSE i \in Existing(p) : \A j \in Existing(p) : i <= j]

\* the files and directories that match p, p.html or p.md when case is ignored
CICandidates(p) ==
    UNION {{<<root, n>> : n \in {m \in NamesIn(tree, root) :
                \E pat \in {p, p \o ExtHtml, p \o ExtMd} : Lower(m) = Lower(pat)}} :
           root \in Roots}
TheCandidate(p) == CHOOSE c \in CICandidates(p) : TRUE
\* the path of a candidate as it is on disk, extension stripped
OnDisk(c) == <<Slash>> \o StripExt(c[2])
ResolvesExactly(c) == Existing(Lstrip(OnDisk(c))) # {}

\* the frontmatter of the Markdown file the exact-case lookup selected
MatchedMd(t) == matched[t] # None /\ EndsWith(matched[t], ExtMd)
MatchedFm(t) == front[get_template_origin(matched[t])]
IncludePath(t, k) ==
    relative_template_path(MatchedFm(t).markdown_includes[k], matched[t])

\* C1: the exact-case lookup selects the first existing file in the order
\* p.html, p/index.html, p.md, p/index.md and finds nothing only when none of
\* the four exists; p.html is rendered when it exists, whatever else exists,
\* and p/index.html is rendered rather than p.md.
C1_ExactLookupOrder ==
    \A t \in pool : pc[t] # "idle" =>
        LET p == PathOf(t)
        IN  /\ (matched[t] = None) <=> (Existing(p) = {})
            /\ Existing(p) # {} => matched[t] = FirstExisting(p)
            /\ HasFile(p \o ExtHtml) =>
                   outcome[t] = Render(p \o ExtHtml, req[t].context)
            /\ ~HasFile(p \o ExtHtml) /\ HasFile(PathJoin(p, IndexHtml)) =>
                   outcome[t] = Render(PathJoin(p, IndexHtml), req[t].context)

C1_Witness ==
    \E t \in pool :
        /\ pc[t] = "done"
        /\ ~HasFile(PathOf(t) \o ExtHtml)
        /\ HasFile(PathJoin(PathOf(t), IndexHtml))
        /\ HasFile(PathOf(t) \o ExtMd)
        /\ outcome[t].kind = "render"

C2_Pre(p) ==
    LET cands == CICandidates(p)
        only == CHOOSE c \in cands : TRUE
    IN  /\ Existing(p) = {}
        /\ Cardinality(cands) = 1
        /\ Lower(OnDisk(only)) = Lower(<<Slash>> \o p)
        /\ ResolvesExactly(only)

\* C2: when no exact-case candidate exists and exactly one file or directory
\* matches case-insensitively, equals p case-insensitively and resolves through
\* the exact-case lookup, the outcome is a redirect to its on-disk path, which
\* differs from "/" + p in letter case only.
C2_RedirectToOnDiskCase ==
    \A t \in pool : (pc[t] = "done" /\ C2_Pre(PathOf(t))) =>
        LET p == PathOf(t)
            location == outcome[t].location
        IN  /\ outcome[t] = Redirect(OnDisk(TheCandidate(p)), req[t].context)
            /\ Lower(location) = Lower(<<Slash>> \o p)
            /\ location # <<Slash>> \o p
            /\ Len(location) = Len(p) + 1
            /\ \A i \in 1..Len(p) :
                   location[i + 1] # p[i] =>
                       IsAlpha(p[i]) /\ LowerChar(location[i + 1]) = LowerChar(p[i])

C2_Witness ==
    \E t \in pool :
        /\ pc[t] = "done"
        /\ C2_Pre(PathOf(t))
        /\ outcome[t].kind = "redirect"

\* C3: when no exact-case candidate exists, the outcome is NotFound if no
\* case-insensitive candidate exists, if two or more exist (summed over the
\* template directories), or if the single one does not resolve through the
\* exact-case lookup.
C3_NotFoundWhenAmbiguous ==
    \A t \in pool : (pc[t] = "done" /\ Existing(PathOf(t)) = {}) =>
        LET cands == CICandidates(PathOf(t))
            n == Cardinality(cands)
            only == CHOOSE c \in cands : TRUE
        IN  (n = 0 \/ n >= 2 \/ (n = 1 /\ ~ResolvesExactly(only)))
                => outcome[t] = NotFound(req[t].context)

C3_Witness ==
    \E t \in pool :
        /\ pc[t] = "done"
        /\ Existing(PathOf(t)) = {}
        /\ \E c, d \in CICandidates(PathOf(t)) :
               /\ c[2] # d[2]
               /\ ResolvesExactly(c) /\ ResolvesExactly(d)
               /\ Lower(OnDisk(c)) = Lower(<<Slash>> \o PathOf(t))
        /\ outcome[t].kind = "notfound"

\* C4: when the exact-case lookup selects a Markdown file with no
\* wrapper_template, the outcome is NotFound whatever context and includes the
\* frontmatter declares; no include is read and the caller's context is left
\* as it was.
C4_NoWrapperIsNotFound ==
    \A t \in pool :
        (pc[t] # "idle" /\ MatchedMd(t)
            /\ MatchedFm(t).wrapper_template = None) =>
                /\ pc[t] = "done"
                /\ outcome[t] = NotFound(req[t].context)
                /\ loaded[t] = {matched[t]}

C4_Witness ==
    \E t \in pool :
        /\ pc[t] = "done" /\ MatchedMd(t)
        /\ MatchedFm(t).wrapper_template = None
        /\ MatchedFm(t).context # EmptyDict
        /\ \E k \in DOMAIN MatchedFm(t).markdown_includes :
               ~HasFile(IncludePath(t, k))
        /\ outcome[t].kind = "notfound"

\* C5: a redirect is returned only when its target renders: the request for
\* the location of a redirect is answered with Render.
C5_RedirectTargetRenders ==
    \A t \in pool :
        (pc[t] = "done" /\ req[t].followed) => outcome[t].kind = "render"

\* C6: for a Markdown page the context handed to the template is the caller's
\* context overlaid by the frontmatter context, overlaid by html_content and
\* the include keys; for an HTML file it is the caller's context.
C6_ContextOverlay ==
    \A t \in pool : (pc[t] = "done" /\ outcome[t].kind = "render") =>
        IF MatchedMd(t)
        THEN LET composed == DOMAIN MatchedFm(t).markdown_includes
                                 \cup {"html_content"}
                 declared == DOMAIN MatchedFm(t).context
                 context == outcome[t].context
             IN  /\ DOMAIN context =
                        DOMAIN req[t].context \cup declared \cup composed
                 /\ \A k \in DOMAIN context :
                        IF k \in composed THEN context[k][1] = "html"
                        ELSE IF k \in declared
                             THEN context[k] = MatchedFm(t).context[k]
                        ELSE context[k] = req[t].context[k]
        ELSE outcome[t] = Render(matched[t], req[t].context)

C6_Witness ==
    \E t \in pool :
        /\ pc[t] = "done" /\ outcome[t].kind = "render" /\ MatchedMd(t)
        /\ DOMAIN req[t].context = Keys \cup {"view"}
        /\ DOMAIN MatchedFm(t).context = Keys
        /\ DOMAIN MatchedFm(t).markdown_includes = {"nav"}

\* C7: in every Render made from a Markdown document, context["html_content"]
\* is the conversion of the body of that document, whatever keys its context
\* and its markdown_includes declare.
C7_HtmlContentIsBody ==
    \A t \in pool :
        (pc[t] = "done" /\ outcome[t].kind = "render" /\ MatchedMd(t)) =>
            outcome[t].context["html_content"] =
                Html([fm |-> NoMetadata,
                      body |-> get_template_origin(matched[t])])

\* C8: for a Markdown page with a wrapper_template, a markdown_includes entry
\* that resolves to a missing file fails the request; when every include
\* exists, each declared key holds the conversion of the whole text of the
\* included file, frontmatter block included.
C8_Includes ==
    \A t \in pool :
        (pc[t] = "done" /\ MatchedMd(t)
            /\ MatchedFm(t).wrapper_template # None) =>
            LET includes == MatchedFm(t).markdown_includes
            IN  IF \E k \in DOMAIN includes : ~HasFile(IncludePath(t, k))
                THEN outcome[t].kind = "error"
                ELSE /\ outcome[t].kind = "render"
                     /\ \A k \in DOMAIN includes :
                            outcome[t].context[k] =
                                Html(Text(get_template_origin(
                                              IncludePath(t, k))))

C8_Witness ==
    \E t \in pool :
        /\ pc[t] = "done" /\ MatchedMd(t) /\ outcome[t].kind = "render"
        /\ \E k \in DOMAIN MatchedFm(t).markdown_includes :
               LET f == get_template_origin(IncludePath(t, k))
               IN  f # get_template_origin(matched[t])
                   /\ front[f].wrapper_template # None

\* C9: resolutions that run in parallel do not interfere: every request gets
\* the outcome it gets when it is served alone.
C9_NoInterference ==
    \A t \in pool : pc[t] = "done" => outcome[t] = resolve(req[t])

\* C10: redirects do not chain: the request for the location of a redirect
\* is matched by the exact-case lookup and is not answered with a redirect.
C10_NoRedirectChain ==
    \A t \in pool : (pc[t] # "idle" /\ req[t].followed) =>
        /\ matched[t] # None
        /\ outcome[t].kind # "redirect"

C10_Witness ==
    \E t \in pool :
        /\ pc[t] = "done" /\ req[t].followed
        /\ outcome[t].kind = "notfound"

====
